---- MODULE Spec2Model ----
(***************************************************************************)
(* Model of iterSideBySideDiff (src/src/iterSideBySideDiffs.ts): the       *)
(* streaming transformer that turns `git diff` output into fixed-width     *)
(* side-by-side rows.                                                      *)
(*                                                                         *)
(* Strings are sequences of one-character strings.  A coloured string is a *)
(* sequence of spans [color, text]: ThemeColor functions are opaque, so a  *)
(* span keeps the name of the colour that was applied to its text.         *)
(***************************************************************************)
EXTENDS Integers, Sequences, FiniteSets, TLC

VARIABLES
    \* Config (destructured parameters, lines 7-13)
    SCREEN_WIDTH, LINE_NUMBER_WIDTH, LINE_PREFIX_WIDTH, MIN_LINE_WIDTH, WRAP_LINES,
    \* derived constants (lines 38-41); bound tells whether they are computed yet
    LINE_WIDTH, LINE_TEXT_WIDTH, bound,
    \* per-invocation state of the returned async generator (lines 292-305)
    state, fileNameA, fileNameB, startA, startB, hunkHeaderLine, hunkLines,
    \* locals of one formatHunkSideBySide call (lines 221-228, 266)
    formattedLines, linesA, linesB, lineNoA, lineNoB, hunkIndex, hpc,
    \* control of the generator: where it is suspended, what it still has to
    \* hand over, and what the consumer has received
    pc, line, pending, pendingThrows, out, pulled,
    \* whether the consumer has given up the iteration (return() at a yield)
    abandoned,
    \* two invocations of the returned function side by side, each with the
    \* state of its own generator, the lines it was fed and the lines it gave
    invocations

cfgVars == <<SCREEN_WIDTH, LINE_NUMBER_WIDTH, LINE_PREFIX_WIDTH, MIN_LINE_WIDTH,
             WRAP_LINES, LINE_WIDTH, LINE_TEXT_WIDTH, bound>>
genVars == <<state, fileNameA, fileNameB, startA, startB, hunkHeaderLine, hunkLines>>
fmtVars == <<formattedLines, linesA, linesB, lineNoA, lineNoB, hunkIndex, hpc>>
ctlVars == <<pc, line, pending, pendingThrows, out, pulled, abandoned>>
vars == <<cfgVars, genVars, fmtVars, ctlVars, invocations>>

-----------------------------------------------------------------------------
(* Bounds of the model *)

\* longest hunk body drawn for one formatHunkSideBySide call
MaxHunkLines == 3
\* number of input lines one stream may deliver
MaxInput == 3
\* number of input lines each of two concurrent streams may deliver
MaxInputEach == 2
\* largest value drawn for each Config width
MaxConfig == 5

-----------------------------------------------------------------------------
(* JavaScript string and number primitives *)

Max(a, b) == IF a >= b THEN a ELSE b
Min(a, b) == IF a <= b THEN a ELSE b

\* n copies of the character ch (n <= 0 gives the empty string)
Repeat(ch, n) == [i \in 1..n |-> ch]

\* String.prototype.slice(from, to): negative indices count from the end
SliceIndex(s, i) == IF i < 0 THEN Max(Len(s) + i, 0) ELSE Min(i, Len(s))
Slice(s, from, to) == SubSeq(s, SliceIndex(s, from) + 1, SliceIndex(s, to))
SliceFrom(s, from) == SubSeq(s, SliceIndex(s, from) + 1, Len(s))

StartsWith(s, p) == Len(s) >= Len(p) /\ SubSeq(s, 1, Len(p)) = p

\* String.prototype.indexOf(p, from): 0-based position, -1 when absent
IndexOf(s, p, from) ==
    LET hits == {i \in Max(from, 0)..(Len(s) - Len(p)) : SubSeq(s, i + 1, i + Len(p)) = p}
    IN IF hits = {} THEN -1 ELSE CHOOSE i \in hits : \A j \in hits : i <= j

\* String.prototype.split(sep) for a one-character separator
RECURSIVE Split(_, _)
Split(s, sep) ==
    LET i == IndexOf(s, <<sep>>, 0)
    IN IF i < 0 THEN <<s>> ELSE <<SubSeq(s, 1, i)>> \o Split(SliceFrom(s, i + 1), sep)

\* String.prototype.padStart / padEnd with spaces: never shortens
PadStart(s, n) == Repeat(" ", n - Len(s)) \o s
PadEnd(s, n) == s \o Repeat(" ", n - Len(s))

Digits == <<"0", "1", "2", "3", "4", "5", "6", "7", "8", "9">>
IsDigit(c) == \E d \in 1..Len(Digits) : Digits[d] = c
DigitValue(c) == (CHOOSE d \in 1..Len(Digits) : Digits[d] = c) - 1

\* A JavaScript number: an integer or NaN
Num(n) == [nan |-> FALSE, v |-> n]
NaN == [nan |-> TRUE, v |-> 0]
Inc(x) == IF x.nan THEN x ELSE Num(x.v + 1)

RECURSIVE NatToString(_)
NatToString(n) ==
    IF n < Len(Digits) THEN <<Digits[n + 1]>>
    ELSE NatToString(n \div Len(Digits)) \o <<Digits[(n % Len(Digits)) + 1]>>

\* Number.prototype.toString()
NumberToString(x) ==
    IF x.nan THEN <<"N", "a", "N">>
    ELSE IF x.v < 0 THEN <<"-">> \o NatToString(-x.v) ELSE NatToString(x.v)

RECURSIVE DigitsValue(_, _)
DigitsValue(s, acc) ==
    IF s = <<>> \/ ~IsDigit(Head(s)) THEN acc
    ELSE DigitsValue(Tail(s), acc * Len(Digits) + DigitValue(Head(s)))

RECURSIVE StripLeft(_)
StripLeft(s) == IF s # <<>> /\ Head(s) = " " THEN StripLeft(Tail(s)) ELSE s

\* parseInt(s, 10): leading blanks, an optional sign, then the longest run of
\* digits; NaN when there is no digit
ParseInt(s) ==
    LET t == StripLeft(s)
        signed == t # <<>> /\ Head(t) \in {"-", "+"}
        body == IF signed THEN Tail(t) ELSE t
    IN IF body = <<>> \/ ~IsDigit(Head(body)) THEN NaN
       ELSE IF signed /\ Head(t) = "-" THEN Num(-DigitsValue(body, 0))
       ELSE Num(DigitsValue(body, 0))

\* The value `undefined` where the code holds it in a string variable (an
\* unmatched capture group): a one-element sequence no string is equal to
Undefined == <<"undefined value">>
\* truthiness of a string-or-undefined value: `x ? .. : ..`, `!x`
Truthy(x) == x # <<>> /\ x # Undefined

-----------------------------------------------------------------------------
(* Coloured strings *)

Colored(color, text) == <<[color |-> color, text |-> text]>>

RECURSIVE DisplayWidth(_)
\* columns the spans take on screen: the text without the escape sequences
DisplayWidth(spans) ==
    IF spans = <<>> THEN 0 ELSE Len(Head(spans).text) + DisplayWidth(Tail(spans))

RECURSIVE PlainText(_)
PlainText(spans) ==
    IF spans = <<>> THEN <<>> ELSE Head(spans).text \o PlainText(Tail(spans))

\* An output line: the coloured text of its left part and of its right part
\* (the right part is empty for lines that are not side-by-side rows)
OutputLine(kind, left, right) == [kind |-> kind, left |-> left, right |-> right]
Width(l) == DisplayWidth(l.left) + DisplayWidth(l.right)

-----------------------------------------------------------------------------
(* Derived constants, lines 38-43 *)

DeriveLineWidth(screenWidth, minLineWidth) == Max(screenWidth \div 2, minLineWidth)

\* Math.max with one argument returns that argument
DeriveLineTextWidth(lineWidth, linePrefixWidth, lineNumberWidth) ==
    lineWidth - 1 - linePrefixWidth - 1 - lineNumberWidth

BLANK_LINE == PadStart(<<>>, LINE_WIDTH)
HORIZONTAL_SEPARATOR ==
    OutputLine("separator", Colored("BORDER_COLOR", Repeat("-", SCREEN_WIDTH)), <<>>)

-----------------------------------------------------------------------------
(* LineWrapper *)

\* wrapLineByWord (./wrapLineByWord, imported at line 4): segments of at most
\* `width` characters, broken after the last blank that fits, a longer token
\* being split at the boundary.  Only used with width >= 1.
RECURSIVE WrapLineByWord(_, _)
WrapLineByWord(text, width) ==
    IF Len(text) <= width \/ width < 1 THEN <<text>>
    ELSE LET blanks == {i \in 1..width : text[i] = " "}
             cut == IF blanks = {} THEN width
                    ELSE CHOOSE i \in blanks : \A j \in blanks : j <= i
         IN <<SubSeq(text, 1, cut)>> \o WrapLineByWord(SubSeq(text, cut + 1, Len(text)), width)

\* fitTextToWidth, lines 49-53
FitTextToWidth(text, width) ==
    IF WRAP_LINES THEN WrapLineByWord(text, width) ELSE <<Slice(text, 0, width)>>

-----------------------------------------------------------------------------
(* Commit lines and the file-name banner *)

\* formatCommitLine that takes the text one character after the blank
FormatCommitLineSkippingOne(l) ==
    LET label == Split(l, " ")[1]
        labelColor ==
            CASE label = <<"c", "o", "m", "m", "i", "t">> -> "COMMIT_SHA_COLOR"
              [] label = <<"A", "u", "t", "h", "o", "r", ":">> -> "COMMIT_AUTHOR_COLOR"
              [] label = <<"D", "a", "t", "e", ":">> -> "COMMIT_DATE_COLOR"
              [] OTHER -> "none"
    IN IF labelColor = "none"
       THEN OutputLine("commit", Colored("COMMIT_COLOR", PadEnd(l, SCREEN_WIDTH)), <<>>)
       ELSE OutputLine("commit",
                Colored("COMMIT_COLOR", label \o <<" ">>)
                    \o Colored(labelColor, SliceFrom(l, Len(label) + 2))
                    \o Colored("COMMIT_COLOR", PadEnd(<<>>, SCREEN_WIDTH - Len(l))),
                <<>>)

\* formatCommitLine, lines 55-77
FormatCommitLine(l) ==
    LET label == Split(l, " ")[1]
        labelColor ==
            CASE label = <<"c", "o", "m", "m", "i", "t">> -> "COMMIT_SHA_COLOR"
              [] label = <<"A", "u", "t", "h", "o", "r", ":">> -> "COMMIT_AUTHOR_COLOR"
              [] label = <<"D", "a", "t", "e", ":">> -> "COMMIT_DATE_COLOR"
              [] OTHER -> "none"
    IN IF labelColor = "none"
       THEN OutputLine("commit", Colored("COMMIT_COLOR", PadEnd(l, SCREEN_WIDTH)), <<>>)
       ELSE OutputLine("commit",
                Colored("COMMIT_COLOR", label \o <<" ">>)
                    \o Colored(labelColor, SliceFrom(l, Len(label) + 1))
                    \o Colored("COMMIT_COLOR", PadEnd(<<>>, SCREEN_WIDTH - Len(l))),
                <<>>)

\* String.prototype.length of a coloured string: every span carries an opening
\* and a closing escape sequence, each counted here as a single character
EscapeSequences(span) == <<span.color, "reset">>
RECURSIVE JsLength(_)
JsLength(spans) ==
    IF spans = <<>> THEN 0
    ELSE Len(EscapeSequences(Head(spans))) + Len(Head(spans).text) + JsLength(Tail(spans))

\* the indicator of the banner's body line, lines 84-96
FileNameIndicator(nameA, nameB) ==
    IF ~Truthy(nameA) THEN Colored("INSERTED_LINE_COLOR", <<"#", "#">>)
    ELSE IF ~Truthy(nameB) THEN Colored("DELETED_LINE_COLOR", <<"#", "#">>)
    ELSE Colored("DELETED_LINE_COLOR", <<"#">>) \o Colored("INSERTED_LINE_COLOR", <<"#">>)

\* whether the code's `label` is undefined (lines 84-86: label = fileNameB)
LabelIsUndefined(nameA, nameB) == ~Truthy(nameA) /\ nameB = Undefined

\* the label of the banner's body line, lines 84-96, a string for lines 86, 89
\* and 92 and a coloured string for line 95
FileNameLabel(nameA, nameB) ==
    IF ~Truthy(nameA) THEN nameB
    ELSE IF ~Truthy(nameB) \/ nameA = nameB THEN nameA
    ELSE Colored("FILE_NAME_COLOR", nameA \o <<" ", "-", ">", " ">> \o nameB)

\* whether the label is the coloured string of line 95
LabelIsColored(nameA, nameB) == Truthy(nameA) /\ Truthy(nameB) /\ nameA # nameB

\* line 99: FILE_NAME_COLOR(' ' + label.padEnd(SCREEN_WIDTH - 2 - 2)), where
\* the length padEnd sees includes the label's escape sequences
PaddedFileNameLabel(nameA, nameB) ==
    LET label == FileNameLabel(nameA, nameB)
    IN IF LabelIsColored(nameA, nameB)
       THEN Colored("FILE_NAME_COLOR", <<" ">>) \o label
                \o Colored("FILE_NAME_COLOR",
                           Repeat(" ", SCREEN_WIDTH - 2 - 2 - JsLength(label)))
       ELSE Colored("FILE_NAME_COLOR", <<" ">> \o PadEnd(label, SCREEN_WIDTH - 2 - 2))

\* formatFileName, lines 79-102: the lines the generator yields, and whether it
\* then throws (label.padEnd on undefined, line 99) instead of finishing
FormatFileName(nameA, nameB) ==
    IF LabelIsUndefined(nameA, nameB)
    THEN [lines |-> <<HORIZONTAL_SEPARATOR>>, throws |-> TRUE]
    ELSE [lines |-> << HORIZONTAL_SEPARATOR,
                       OutputLine("fileName",
                           Colored("FILE_NAME_COLOR", <<" ">>)
                               \o FileNameIndicator(nameA, nameB)
                               \o PaddedFileNameLabel(nameA, nameB),
                           <<>>),
                       HORIZONTAL_SEPARATOR >>,
          throws |-> FALSE]

-----------------------------------------------------------------------------
(* ColumnFormatter and RowAligner *)

\* HunkLineHalf, lines 104-108; NullHalf is `null` (the line is missing), whose
\* fields read as '' through `lineHalf?.x ?? ''` (lines 157-159)
NullHalf == [isNull |-> TRUE, number |-> <<>>, prefix |-> <<>>, text |-> <<>>]
HunkLineHalf(number, prefix, text) ==
    [isNull |-> FALSE, number |-> number, prefix |-> prefix, text |-> text]

\* lineColorForLineHalf, lines 110-122
LineColorForLineHalf(lineHalf) ==
    IF lineHalf.isNull THEN "MISSING_LINE_COLOR"
    ELSE IF lineHalf.prefix = <<"-">> THEN "DELETED_LINE_COLOR"
    ELSE IF lineHalf.prefix = <<"+">> THEN "INSERTED_LINE_COLOR"
    ELSE "UNMODIFIED_LINE_COLOR"

\* lineNoColorForLineHalf, lines 124-136
LineNoColorForLineHalf(lineHalf) ==
    IF lineHalf.isNull THEN "MISSING_LINE_COLOR"
    ELSE IF lineHalf.prefix = <<"-">> THEN "DELETED_LINE_NO_COLOR"
    ELSE IF lineHalf.prefix = <<"+">> THEN "INSERTED_LINE_NO_COLOR"
    ELSE "UNMODIFIED_LINE_NO_COLOR"

\* formatHunkLineHalf, lines 138-150
FormatHunkLineHalf(lineNo, linePrefix, lineText, lineColor, lineNoColor) ==
    Colored(lineNoColor, PadStart(lineNo, LINE_NUMBER_WIDTH))
        \o Colored(lineColor, <<" ">> \o PadStart(linePrefix, LINE_PREFIX_WIDTH))
        \o Colored(lineColor, <<" ">> \o PadEnd(lineText, LINE_TEXT_WIDTH))

\* formatAndFitHunkLineHalf, lines 152-176
FormatAndFitHunkLineHalf(lineHalf, lineColor, lineNoColor) ==
    LET segments == FitTextToWidth(lineHalf.text, LINE_TEXT_WIDTH)
    IN [k \in 1..Len(segments) |->
            FormatHunkLineHalf(IF k = 1 THEN lineHalf.number ELSE <<>>,
                               IF k = 1 THEN lineHalf.prefix ELSE <<>>,
                               segments[k], lineColor, lineNoColor)]

\* formatHunkLine, lines 178-211
FormatHunkLine(lineHalfA, lineHalfB) ==
    LET lineColorA == LineColorForLineHalf(lineHalfA)
        formattedLinesA ==
            FormatAndFitHunkLineHalf(lineHalfA, lineColorA, LineNoColorForLineHalf(lineHalfA))
        lineColorB == LineColorForLineHalf(lineHalfB)
        formattedLinesB ==
            FormatAndFitHunkLineHalf(lineHalfB, lineColorB, LineNoColorForLineHalf(lineHalfB))
    IN [k \in 1..Max(Len(formattedLinesA), Len(formattedLinesB)) |->
            OutputLine("row",
                IF k <= Len(formattedLinesA) THEN formattedLinesA[k]
                ELSE Colored(lineColorA, BLANK_LINE),
                IF k <= Len(formattedLinesB) THEN formattedLinesB[k]
                ELSE Colored(lineColorB, BLANK_LINE))]

-----------------------------------------------------------------------------
(* ChangeBlockAccumulator: formatHunkSideBySide, lines 213-281 *)

\* The locals of one call: formattedLines, linesA, linesB and the running
\* counters lineNoA, lineNoB (the parameters, incremented by flushHunkChange)
HunkLocals(lines, a, b, noA, noB) ==
    [formattedLines |-> lines, linesA |-> a, linesB |-> b, lineNoA |-> noA, lineNoB |-> noB]

\* lines 221-228: the header is fitted to SCREEN_WIDTH, the buffers start empty
HunkHeaderLines(header) ==
    LET segments == FitTextToWidth(header, SCREEN_WIDTH)
    IN [k \in 1..Len(segments) |->
            OutputLine("hunkHeader",
                Colored("HUNK_HEADER_COLOR", PadEnd(segments[k], SCREEN_WIDTH)), <<>>)]

\* FlushFrom with a counter that also advances on a missing half
RECURSIVE FlushFromCountingMissing(_, _)
FlushFromCountingMissing(h, index) ==
    IF ~(index < Len(h.linesA) \/ index < Len(h.linesB)) THEN h
    ELSE LET hasA == index < Len(h.linesA)
             hasB == index < Len(h.linesB)
             lineA == IF hasA
                      THEN HunkLineHalf(NumberToString(h.lineNoA),
                                        Slice(h.linesA[index + 1], 0, 1),
                                        SliceFrom(h.linesA[index + 1], 1))
                      ELSE NullHalf
             lineB == IF hasB
                      THEN HunkLineHalf(NumberToString(h.lineNoB),
                                        Slice(h.linesB[index + 1], 0, 1),
                                        SliceFrom(h.linesB[index + 1], 1))
                      ELSE NullHalf
         IN FlushFromCountingMissing(
                [h EXCEPT !.lineNoA = Inc(@),
                          !.lineNoB = Inc(@),
                          !.formattedLines = @ \o FormatHunkLine(lineA, lineB)],
                index + 1)

\* the while loop of flushHunkChange, lines 239-263, from position `index` on
\* (indexA and indexB advance together until their buffer is exhausted)
RECURSIVE FlushFrom(_, _)
FlushFrom(h, index) ==
    IF ~(index < Len(h.linesA) \/ index < Len(h.linesB)) THEN h
    ELSE LET hasA == index < Len(h.linesA)
             hasB == index < Len(h.linesB)
             lineA == IF hasA
                      THEN HunkLineHalf(NumberToString(h.lineNoA),
                                        Slice(h.linesA[index + 1], 0, 1),
                                        SliceFrom(h.linesA[index + 1], 1))
                      ELSE NullHalf
             lineB == IF hasB
                      THEN HunkLineHalf(NumberToString(h.lineNoB),
                                        Slice(h.linesB[index + 1], 0, 1),
                                        SliceFrom(h.linesB[index + 1], 1))
                      ELSE NullHalf
         IN FlushFrom([h EXCEPT !.lineNoA = IF hasA THEN Inc(@) ELSE @,
                                !.lineNoB = IF hasB THEN Inc(@) ELSE @,
                                !.formattedLines = @ \o FormatHunkLine(lineA, lineB)],
                      index + 1)

\* flushHunkChange, lines 235-264
FlushHunkChange(h) == FlushFrom(h, 0)

\* HunkLineStep that forgets the flush before a context line
HunkLineStepWithoutFlush(h, l, nameA, nameB) ==
    IF StartsWith(l, <<"-">>) THEN [h EXCEPT !.linesA = Append(@, l)]
    ELSE IF StartsWith(l, <<"+">>) THEN [h EXCEPT !.linesB = Append(@, l)]
    ELSE [h EXCEPT !.linesA = IF Truthy(nameA) THEN <<l>> ELSE <<>>,
                   !.linesB = IF Truthy(nameB) THEN <<l>> ELSE <<>>]

\* HunkLineStep that buffers a context line like a changed line, behind the
\* pending change block
HunkLineStepBufferingContext(h, l, nameA, nameB) ==
    IF StartsWith(l, <<"-">>) THEN [h EXCEPT !.linesA = Append(@, l)]
    ELSE IF StartsWith(l, <<"+">>) THEN [h EXCEPT !.linesB = Append(@, l)]
    ELSE [h EXCEPT !.linesA = IF Truthy(nameA) THEN Append(@, l) ELSE @,
                   !.linesB = IF Truthy(nameB) THEN Append(@, l) ELSE @]

\* HunkLineStep that keeps the flushed change block in the buffers
HunkLineStepKeepingBuffers(h, l, nameA, nameB) ==
    IF StartsWith(l, <<"-">>) THEN [h EXCEPT !.linesA = Append(@, l)]
    ELSE IF StartsWith(l, <<"+">>) THEN [h EXCEPT !.linesB = Append(@, l)]
    ELSE [FlushHunkChange(h) EXCEPT !.linesA = IF Truthy(nameA) THEN Append(@, l) ELSE @,
                                    !.linesB = IF Truthy(nameB) THEN Append(@, l) ELSE @]

\* one iteration of the loop over hunkLines, lines 266-276
HunkLineStep(h, l, nameA, nameB) ==
    IF StartsWith(l, <<"-">>) THEN [h EXCEPT !.linesA = Append(@, l)]
    ELSE IF StartsWith(l, <<"+">>) THEN [h EXCEPT !.linesB = Append(@, l)]
    ELSE [FlushHunkChange(h) EXCEPT !.linesA = IF Truthy(nameA) THEN <<l>> ELSE <<>>,
                                    !.linesB = IF Truthy(nameB) THEN <<l>> ELSE <<>>]

RECURSIVE HunkLoop(_, _, _, _)
HunkLoop(h, lines, nameA, nameB) ==
    IF lines = <<>> THEN h
    ELSE HunkLoop(HunkLineStep(h, Head(lines), nameA, nameB), Tail(lines), nameA, nameB)

\* formatHunkSideBySide as a whole: its return value
FormatHunkSideBySide(header, lines, noA, noB, nameA, nameB) ==
    FlushHunkChange(
        HunkLoop(HunkLocals(HunkHeaderLines(header), <<>>, <<>>, noA, noB),
                 lines, nameA, nameB)).formattedLines

-----------------------------------------------------------------------------
(* FileHeaderTracker and the hunk-header parser *)

Str_commit == <<"c", "o", "m", "m", "i", "t", " ">>
Str_diff == <<"d", "i", "f", "f", " ", "-", "-", "g", "i", "t">>
Str_oldFile == <<"-", "-", "-", " ", "a", "/">>
Str_newFile == <<"+", "+", "+", " ", "b", "/">>
Str_renameFrom == <<"r", "e", "n", "a", "m", "e", " ", "f", "r", "o", "m", " ">>
Str_renameTo == <<"r", "e", "n", "a", "m", "e", " ", "t", "o", " ">>
Str_binaryFiles == <<"B", "i", "n", "a", "r", "y", " ", "f", "i", "l", "e", "s">>
Str_and == <<" ", "a", "n", "d", " ">>
Str_differ == <<" ", "d", "i", "f", "f", "e", "r">>
Str_devNull == <<"/", "d", "e", "v", "/", "n", "u", "l", "l">>

NoMatch == [matched |-> FALSE, group |-> Undefined, groupA |-> Undefined, groupB |-> Undefined]

\* the second half of BINARY_FILES_DIFF_REGEX, line 289, on the text after
\* " and ": (?:b\/(.*)|\/dev\/null) differ$
MatchBinaryB(t) ==
    IF StartsWith(t, <<"b", "/">>) /\ Len(t) >= Len(<<"b", "/">>) + Len(Str_differ)
          /\ SubSeq(t, Len(t) - Len(Str_differ) + 1, Len(t)) = Str_differ
    THEN [NoMatch EXCEPT !.matched = TRUE,
                         !.group = SubSeq(t, Len(<<"b", "/">>) + 1, Len(t) - Len(Str_differ))]
    ELSE IF t = Str_devNull \o Str_differ THEN [NoMatch EXCEPT !.matched = TRUE]
    ELSE NoMatch

\* BINARY_FILES_DIFF_REGEX, line 289, as line.match applies it: the first
\* alternative with the longest first group that lets the rest match
MatchBinaryFiles(l) ==
    LET head == Str_binaryFiles \o <<" ">>
        rest == SubSeq(l, Len(head) + 1, Len(l))
        \* 0-based ends of group 1 after which " and " and the rest match
        ends == {i \in Len(<<"a", "/">>)..Len(rest) :
                    /\ SubSeq(rest, i + 1, i + Len(Str_and)) = Str_and
                    /\ MatchBinaryB(SubSeq(rest, i + Len(Str_and) + 1, Len(rest))).matched}
        end == CHOOSE i \in ends : \A j \in ends : j <= i
        nullHead == Str_devNull \o Str_and
    IN IF ~StartsWith(l, head) THEN NoMatch
       ELSE IF StartsWith(rest, <<"a", "/">>) /\ ends # {}
       THEN [NoMatch EXCEPT
                !.matched = TRUE,
                !.groupA = SubSeq(rest, Len(<<"a", "/">>) + 1, end),
                !.groupB = MatchBinaryB(SubSeq(rest, end + Len(Str_and) + 1, Len(rest))).group]
       ELSE IF StartsWith(rest, nullHead)
               /\ MatchBinaryB(SubSeq(rest, Len(nullHead) + 1, Len(rest))).matched
       THEN [NoMatch EXCEPT
                !.matched = TRUE,
                !.groupB = MatchBinaryB(SubSeq(rest, Len(nullHead) + 1, Len(rest))).group]
       ELSE NoMatch

\* DiffHeaderLine that destructures the match without testing it
DiffHeaderLineWithoutMatchTest(l, nameA, nameB) ==
    IF StartsWith(l, Str_oldFile) THEN <<SliceFrom(l, Len(Str_oldFile)), nameB>>
    ELSE IF StartsWith(l, Str_newFile) THEN <<nameA, SliceFrom(l, Len(Str_newFile))>>
    ELSE IF StartsWith(l, Str_renameFrom) THEN <<SliceFrom(l, Len(Str_renameFrom)), nameB>>
    ELSE IF StartsWith(l, Str_renameTo) THEN <<nameA, SliceFrom(l, Len(Str_renameTo))>>
    ELSE IF StartsWith(l, Str_binaryFiles)
    THEN <<MatchBinaryFiles(l).groupA, MatchBinaryFiles(l).groupB>>
    ELSE <<nameA, nameB>>

\* DiffHeaderLine that assigns a name only while it is still empty
DiffHeaderLineFirstWins(l, nameA, nameB) ==
    LET a(name) == IF nameA = <<>> THEN name ELSE nameA
        b(name) == IF nameB = <<>> THEN name ELSE nameB
    IN IF StartsWith(l, Str_oldFile) THEN <<a(SliceFrom(l, Len(Str_oldFile))), nameB>>
       ELSE IF StartsWith(l, Str_newFile) THEN <<nameA, b(SliceFrom(l, Len(Str_newFile)))>>
       ELSE IF StartsWith(l, Str_renameFrom)
       THEN <<a(SliceFrom(l, Len(Str_renameFrom))), nameB>>
       ELSE IF StartsWith(l, Str_renameTo) THEN <<nameA, b(SliceFrom(l, Len(Str_renameTo)))>>
       ELSE IF StartsWith(l, Str_binaryFiles) /\ MatchBinaryFiles(l).matched
       THEN <<a(MatchBinaryFiles(l).groupA), b(MatchBinaryFiles(l).groupB)>>
       ELSE <<nameA, nameB>>

\* case 'diff', lines 378-395: the FileNamePair after the line
DiffHeaderLine(l, nameA, nameB) ==
    IF StartsWith(l, Str_oldFile) THEN <<SliceFrom(l, Len(Str_oldFile)), nameB>>
    ELSE IF StartsWith(l, Str_newFile) THEN <<nameA, SliceFrom(l, Len(Str_newFile))>>
    ELSE IF StartsWith(l, Str_renameFrom) THEN <<SliceFrom(l, Len(Str_renameFrom)), nameB>>
    ELSE IF StartsWith(l, Str_renameTo) THEN <<nameA, SliceFrom(l, Len(Str_renameTo))>>
    ELSE IF StartsWith(l, Str_binaryFiles) /\ MatchBinaryFiles(l).matched
    THEN <<MatchBinaryFiles(l).groupA, MatchBinaryFiles(l).groupB>>
    ELSE <<nameA, nameB>>

\* lines 346-364: what the hunk-header branch leaves in hunkHeaderLine, startA
\* and startB, and whether it throws on the way (a failed assert.ok, or
\* bHeader.split on undefined)
ParseHunkHeader(l, oldHeaderLine, oldStartA, oldStartB) ==
    LET hunkHeaderStart == IndexOf(l, <<"@", "@", " ">>, 0)
        hunkHeaderEnd == IndexOf(l, <<" ", "@", "@">>, hunkHeaderStart + 1)
        hunkHeader == Slice(l, hunkHeaderStart + 3, hunkHeaderEnd)
        headers == Split(hunkHeader, " ")
        startAString == Split(headers[1], ",")[1]
        startBString == Split(headers[2], ",")[1]
        result(throws, header, a, b) ==
            [throws |-> throws, hunkHeaderLine |-> header, startA |-> a, startB |-> b]
    IN IF ~(hunkHeaderStart >= 0) \/ ~(hunkHeaderEnd > hunkHeaderStart)
       THEN result(TRUE, oldHeaderLine, oldStartA, oldStartB)
       ELSE IF Len(headers) < 2 \/ ~StartsWith(startAString, <<"-">>)
       THEN result(TRUE, l, oldStartA, oldStartB)
       ELSE IF ~StartsWith(startBString, <<"+">>)
       THEN result(TRUE, l, ParseInt(SliceFrom(startAString, 1)), oldStartB)
       ELSE result(FALSE, l, ParseInt(SliceFrom(startAString, 1)),
                   ParseInt(SliceFrom(startBString, 1)))

-----------------------------------------------------------------------------
(* StateMachine: the returned async generator, lines 291-408 *)

\* what `line` holds once the input sequence is exhausted (the loop is left)
EndOfInput == <<"end of input">>

IsCommitMarker(l) == StartsWith(l, Str_commit)
IsDiffMarker(l) == StartsWith(l, Str_diff)
IsHunkMarker(l) == StartsWith(l, <<"@", "@">>)

\* a yieldHunk that leaves the flushed lines in the buffer
YieldHunkKeepingLines(g) == g
\* the end of yieldHunk, line 315: the buffer is emptied once the yield* of
\* the formatted hunk is exhausted
YieldHunkEnd(g) == [g EXCEPT !.hunkLines = <<>>]

\* The generator between two suspensions.  pc names the place it runs from:
\*   "pull"            suspended in `for await`, waiting for the next line
\*   "dispatch"        line 320, with a fresh line
\*   "afterFileName"   after the yield* yieldFileName() of the branch taken
\*   "afterHunk"       line 315, after the yield* inside yieldHunk
\*   "afterSeparator"  line 328, after yield HORIZONTAL_SEPARATOR
\*   "transition"      the assignments of the marker's branch
\*   "handle"          line 373, the switch on state
\*   "afterCommitLine" line 376
\*   "eof"             line 403
\*   "done" / "error"  returned / thrown
\*   "returned"        finished by the consumer's return() at a yield
\* pending holds the lines of the yield or yield* it is suspended in.
Advance(g) ==
    CASE g.pc = "dispatch" ->
            IF ~(IsCommitMarker(g.line) \/ IsDiffMarker(g.line) \/ IsHunkMarker(g.line))
            THEN [g EXCEPT !.pc = "handle"]
            ELSE IF g.state = "diff"
            THEN [g EXCEPT !.pc = "afterFileName",
                           !.pending = FormatFileName(g.fileNameA, g.fileNameB).lines,
                           !.pendingThrows = FormatFileName(g.fileNameA, g.fileNameB).throws]
            ELSE IF g.state = "hunk"
            THEN [g EXCEPT !.pc = "afterHunk",
                           !.pending = FormatHunkSideBySide(g.hunkHeaderLine, g.hunkLines,
                                           g.startA, g.startB, g.fileNameA, g.fileNameB)]
            ELSE [g EXCEPT !.pc = "transition"]
      [] g.pc = "eof" ->
            IF g.state = "diff"
            THEN [g EXCEPT !.pc = "afterFileName",
                           !.pending = FormatFileName(g.fileNameA, g.fileNameB).lines,
                           !.pendingThrows = FormatFileName(g.fileNameA, g.fileNameB).throws]
            ELSE IF g.state = "hunk"
            THEN [g EXCEPT !.pc = "afterHunk",
                           !.pending = FormatHunkSideBySide(g.hunkHeaderLine, g.hunkLines,
                                           g.startA, g.startB, g.fileNameA, g.fileNameB)]
            ELSE [g EXCEPT !.pc = "done"]
      [] g.pc = "afterFileName" ->
            IF g.pendingThrows THEN [g EXCEPT !.pc = "error", !.pendingThrows = FALSE]
            ELSE IF g.line = EndOfInput THEN [g EXCEPT !.pc = "done"]
            ELSE [g EXCEPT !.pc = "transition"]
      [] g.pc = "afterHunk" ->
            IF g.line = EndOfInput THEN [YieldHunkEnd(g) EXCEPT !.pc = "done"]
            ELSE IF IsCommitMarker(g.line)
            THEN [YieldHunkEnd(g) EXCEPT !.pc = "afterSeparator",
                                         !.pending = <<HORIZONTAL_SEPARATOR>>]
            ELSE [YieldHunkEnd(g) EXCEPT !.pc = "transition"]
      [] g.pc = "afterSeparator" -> [g EXCEPT !.pc = "transition"]
      [] g.pc = "transition" ->
            IF IsCommitMarker(g.line) THEN [g EXCEPT !.state = "commit", !.pc = "handle"]
            ELSE IF IsDiffMarker(g.line)
            THEN [g EXCEPT !.state = "diff", !.fileNameA = <<>>, !.fileNameB = <<>>,
                           !.pc = "handle"]
            ELSE LET parsed == ParseHunkHeader(g.line, g.hunkHeaderLine, g.startA, g.startB)
                 IN [g EXCEPT !.hunkHeaderLine = parsed.hunkHeaderLine,
                              !.startA = parsed.startA,
                              !.startB = parsed.startB,
                              !.state = IF parsed.throws THEN @ ELSE "hunk",
                              !.pc = IF parsed.throws THEN "error" ELSE "pull"]
      [] g.pc = "handle" ->
            IF g.state = "commit"
            THEN [g EXCEPT !.pc = "afterCommitLine", !.pending = <<FormatCommitLine(g.line)>>]
            ELSE IF g.state = "diff"
            THEN [g EXCEPT !.fileNameA = DiffHeaderLine(g.line, g.fileNameA, g.fileNameB)[1],
                           !.fileNameB = DiffHeaderLine(g.line, g.fileNameA, g.fileNameB)[2],
                           !.pc = "pull"]
            ELSE [g EXCEPT !.hunkLines = Append(@, g.line), !.pc = "pull"]
      [] g.pc = "afterCommitLine" -> [g EXCEPT !.pc = "pull"]

\* the generator is finished: it returned, threw, or was returned by the consumer
Finished(g) == g.pc \in {"done", "error", "returned"}

\* a generator that does not wait for the consumer at its yields
SuspendedOnlyForInput(g) == g.pc = "pull" \/ Finished(g)
Suspended(g) == g.pending # <<>> \/ g.pc = "pull" \/ Finished(g)

\* a generator that takes return() as a request to go on reading
ReturnToLoop(g) == [g EXCEPT !.pc = "pull", !.pending = <<>>, !.pendingThrows = FALSE]
\* return() on a generator suspended at a yield or yield*: the generator
\* completes there, nothing after the yield runs, and leaving the `for await`
\* loop releases the input
Return(g) == [g EXCEPT !.pc = "returned", !.pending = <<>>, !.pendingThrows = FALSE]

\* run the generator until it suspends (a yield with a line to hand over, or
\* the wait for input) or ends
RECURSIVE Run(_)
Run(g) == IF Suspended(g) THEN g ELSE Run(Advance(g))

Gen ==
    [state |-> state, fileNameA |-> fileNameA, fileNameB |-> fileNameB,
     startA |-> startA, startB |-> startB, hunkHeaderLine |-> hunkHeaderLine,
     hunkLines |-> hunkLines, pc |-> pc, line |-> line, pending |-> pending,
     pendingThrows |-> pendingThrows]

SetGen(g) ==
    /\ state' = g.state
    /\ fileNameA' = g.fileNameA
    /\ fileNameB' = g.fileNameB
    /\ startA' = g.startA
    /\ startB' = g.startB
    /\ hunkHeaderLine' = g.hunkHeaderLine
    /\ hunkLines' = g.hunkLines
    /\ pc' = g.pc
    /\ line' = g.line
    /\ pending' = g.pending
    /\ pendingThrows' = g.pendingThrows

-----------------------------------------------------------------------------
(* Inputs *)

BoundedSeq(S, n) == UNION {[1..k -> S] : k \in 0..n}

Config(screenWidth, lineNumberWidth, linePrefixWidth, minLineWidth, wrapLines) ==
    [SCREEN_WIDTH |-> screenWidth, LINE_NUMBER_WIDTH |-> lineNumberWidth,
     LINE_PREFIX_WIDTH |-> linePrefixWidth, MIN_LINE_WIDTH |-> minLineWidth,
     WRAP_LINES |-> wrapLines]

\* Configs the streams run under: an even screen truncating, an odd one wrapping
StreamConfigs ==
    { Config(16, 2, 1, 0, FALSE), Config(11, 1, 1, 0, TRUE) }

\* Configs the hunks are formatted under: the two above with wrapping either
\* way, and one whose columns leave no room for text
HunkConfigs ==
    { Config(16, 2, 1, 0, FALSE), Config(16, 2, 1, 0, TRUE),
      Config(11, 1, 1, 0, FALSE), Config(8, 2, 1, 0, FALSE) }

\* the lines a stream may deliver
InputLines ==
    { <<"c", "o", "m", "m", "i", "t", " ", "1">>,
      <<"A", "u", "t", "h", "o", "r", ":", " ", "x">>,
      <<"d", "i", "f", "f", " ", "-", "-", "g", "i", "t">>,
      <<"-", "-", "-", " ", "a", "/", "f">>,
      <<"+", "+", "+", " ", "b", "/", "g">>,
      Str_binaryFiles \o <<" ">> \o Str_devNull \o Str_and \o Str_devNull \o Str_differ,
      Str_binaryFiles \o <<" ", "x">>,
      <<"@", "@", " ", "-", "1", " ", "+", "9", " ", "@", "@">>,
      <<"@", "@", " ", "-", "x", " ", "+", "y", " ", "@", "@">>,
      <<"@", "@", " ", "-", "1">>,
      <<"-", "a">>,
      <<"+", "b", "b", " ", "c">>,
      <<" ", "d">> }

\* the body lines of a hunk handed to formatHunkSideBySide
HunkBodyLines ==
    { <<"-", "a">>, <<"-", "b", "b", " ", "c">>, <<"+", "a">>, <<"+", "e">>,
      <<" ", "d">>, <<" ", "f", "f", " ", "g">> }

\* well-formed hunk headers: the second starts next to a change of length
HunkHeaders ==
    { <<"@", "@", " ", "-", "1", " ", "+", "1", " ", "@", "@">>,
      <<"@", "@", " ", "-", "9", ",", "2", " ", "+", "9", "8", " ", "@", "@">> }

\* the FileNamePairs a hunk is formatted under
HunkFileNames == { <<>>, <<"f">> }

-----------------------------------------------------------------------------
(* Initial states *)

InitConfig(c) ==
    /\ SCREEN_WIDTH = c.SCREEN_WIDTH
    /\ LINE_NUMBER_WIDTH = c.LINE_NUMBER_WIDTH
    /\ LINE_PREFIX_WIDTH = c.LINE_PREFIX_WIDTH
    /\ MIN_LINE_WIDTH = c.MIN_LINE_WIDTH
    /\ WRAP_LINES = c.WRAP_LINES
    /\ LINE_WIDTH = DeriveLineWidth(c.SCREEN_WIDTH, c.MIN_LINE_WIDTH)
    /\ LINE_TEXT_WIDTH =
            DeriveLineTextWidth(DeriveLineWidth(c.SCREEN_WIDTH, c.MIN_LINE_WIDTH),
                                c.LINE_PREFIX_WIDTH, c.LINE_NUMBER_WIDTH)
    /\ bound = TRUE

\* no formatHunkSideBySide call is in progress
InitNoCall ==
    /\ formattedLines = <<>>
    /\ linesA = <<>>
    /\ linesB = <<>>
    /\ lineNoA = Num(-1)
    /\ lineNoB = Num(-1)
    /\ hunkIndex = 0
    /\ hpc = "idle"

\* a fresh invocation of the generator, lines 292-305
InitGen ==
    /\ state = "commit"
    /\ fileNameA = <<>>
    /\ fileNameB = <<>>
    /\ startA = Num(-1)
    /\ startB = Num(-1)
    /\ hunkHeaderLine = <<>>
    /\ hunkLines = <<>>
    /\ pc = "pull"
    /\ line = <<>>
    /\ pending = <<>>
    /\ pendingThrows = FALSE
    /\ out = <<>>
    /\ pulled = 0
    /\ abandoned = FALSE

Init ==
    /\ \E c \in StreamConfigs : InitConfig(c)
    /\ InitGen
    /\ InitNoCall
    /\ invocations = <<>>

-----------------------------------------------------------------------------
(* The stream: input source, generator and consumer *)

\* the source delivers line l to the generator waiting in `for await`
Pull(l) ==
    /\ pc = "pull"
    /\ pulled < MaxInput
    /\ pulled' = pulled + 1
    /\ SetGen(Run([Gen EXCEPT !.pc = "dispatch", !.line = l]))
    /\ UNCHANGED <<out, abandoned, cfgVars, fmtVars, invocations>>

\* the source is exhausted: the loop is left, lines 403-407
End ==
    /\ pc = "pull"
    /\ SetGen(Run([Gen EXCEPT !.pc = "eof", !.line = EndOfInput]))
    /\ UNCHANGED <<out, pulled, abandoned, cfgVars, fmtVars, invocations>>

\* the consumer receives the line the generator is suspended on
Deliver ==
    /\ pending # <<>>
    /\ out' = Append(out, Head(pending))
    /\ pending' = Tail(pending)
    /\ UNCHANGED <<genVars, pc, line, pendingThrows, pulled, abandoned, cfgVars, fmtVars,
                   invocations>>

\* the consumer asks for the next line and the yield or yield* is exhausted:
\* the generator runs on
Resume ==
    /\ pending = <<>>
    /\ pc # "pull"
    /\ ~Finished(Gen)
    /\ SetGen(Run(Advance(Gen)))
    /\ UNCHANGED <<out, pulled, abandoned, cfgVars, fmtVars, invocations>>

\* the consumer gives up while the generator is suspended at a yield: a
\* `break` out of its loop calls return() on the generator
Abandon ==
    /\ pc # "pull"
    /\ ~Finished(Gen)
    /\ abandoned' = TRUE
    /\ SetGen(Return(Gen))
    /\ UNCHANGED <<out, pulled, cfgVars, fmtVars, invocations>>

Next ==
    \/ \E l \in InputLines : Pull(l)
    \/ End
    \/ Deliver
    \/ Resume
    \/ Abandon

Spec == Init /\ [][Next]_vars

-----------------------------------------------------------------------------
(* One call of formatHunkSideBySide, step by step *)

InitHunk ==
    /\ \E c \in HunkConfigs : InitConfig(c)
    /\ state = "hunk"
    /\ fileNameA \in HunkFileNames
    /\ fileNameB \in HunkFileNames
    /\ \E header \in HunkHeaders :
          LET parsed == ParseHunkHeader(header, <<>>, Num(-1), Num(-1))
          IN /\ hunkHeaderLine = parsed.hunkHeaderLine
             /\ startA = parsed.startA
             /\ startB = parsed.startB
    /\ hunkLines \in BoundedSeq(HunkBodyLines, MaxHunkLines)
    /\ pc = "dispatch"
    /\ line = EndOfInput
    /\ pending = <<>>
    /\ pendingThrows = FALSE
    /\ out = <<>>
    /\ pulled = 0
    /\ abandoned = FALSE
    /\ invocations = <<>>
    /\ InitNoCall

Locals == HunkLocals(formattedLines, linesA, linesB, lineNoA, lineNoB)

SetLocals(h) ==
    /\ formattedLines' = h.formattedLines
    /\ linesA' = h.linesA
    /\ linesB' = h.linesB
    /\ lineNoA' = h.lineNoA
    /\ lineNoB' = h.lineNoB

\* lines 221-228: entry of the call
HunkCall ==
    /\ hpc = "idle"
    /\ SetLocals(HunkLocals(HunkHeaderLines(hunkHeaderLine), <<>>, <<>>, startA, startB))
    /\ hunkIndex' = 0
    /\ hpc' = "loop"
    /\ UNCHANGED <<cfgVars, genVars, ctlVars, invocations>>

\* lines 266-276: one iteration of the loop over hunkLines
HunkIterate ==
    /\ hpc = "loop"
    /\ hunkIndex < Len(hunkLines)
    /\ SetLocals(HunkLineStep(Locals, hunkLines[hunkIndex + 1], fileNameA, fileNameB))
    /\ hunkIndex' = hunkIndex + 1
    /\ UNCHANGED <<hpc, cfgVars, genVars, ctlVars, invocations>>

\* lines 278-280: the final flush and the return
HunkReturn ==
    /\ hpc = "loop"
    /\ hunkIndex = Len(hunkLines)
    /\ SetLocals(FlushHunkChange(Locals))
    /\ hpc' = "returned"
    /\ UNCHANGED <<hunkIndex, cfgVars, genVars, ctlVars, invocations>>

NextHunk == HunkCall \/ HunkIterate \/ HunkReturn

SpecHunk == InitHunk /\ [][NextHunk]_vars

-----------------------------------------------------------------------------
(* The binding of a Config, lines 38-41 *)

InitBind ==
    /\ SCREEN_WIDTH \in 1..MaxConfig
    /\ LINE_NUMBER_WIDTH \in 0..MaxConfig
    /\ LINE_PREFIX_WIDTH \in 0..MaxConfig
    /\ MIN_LINE_WIDTH \in 0..MaxConfig
    /\ WRAP_LINES \in BOOLEAN
    /\ LINE_WIDTH = 0
    /\ LINE_TEXT_WIDTH = 0
    /\ bound = FALSE
    /\ InitGen
    /\ InitNoCall
    /\ invocations = <<>>

Bind ==
    /\ ~bound
    /\ LINE_WIDTH' = DeriveLineWidth(SCREEN_WIDTH, MIN_LINE_WIDTH)
    /\ LINE_TEXT_WIDTH' =
            DeriveLineTextWidth(DeriveLineWidth(SCREEN_WIDTH, MIN_LINE_WIDTH),
                                LINE_PREFIX_WIDTH, LINE_NUMBER_WIDTH)
    /\ bound' = TRUE
    /\ UNCHANGED <<SCREEN_WIDTH, LINE_NUMBER_WIDTH, LINE_PREFIX_WIDTH, MIN_LINE_WIDTH,
                   WRAP_LINES, genVars, fmtVars, ctlVars, invocations>>

NextBind == Bind

SpecBind == InitBind /\ [][NextBind]_vars

-----------------------------------------------------------------------------
(* Two invocations of the returned function under one Config binding *)

\* the lines each of the two streams may deliver
TwoInputLines ==
    { <<"d", "i", "f", "f", " ", "-", "-", "g", "i", "t">>,
      <<"@", "@", " ", "-", "1", " ", "+", "9", " ", "@", "@">>,
      <<"-", "a">> }

\* the variables a call of the returned function declares, lines 292-305
FreshGen ==
    [state |-> "commit", fileNameA |-> <<>>, fileNameB |-> <<>>,
     startA |-> Num(-1), startB |-> Num(-1), hunkHeaderLine |-> <<>>,
     hunkLines |-> <<>>, pc |-> "pull", line |-> <<>>, pending |-> <<>>,
     pendingThrows |-> FALSE]

FreshInvocation == [gen |-> FreshGen, input |-> <<>>, ended |-> FALSE, out |-> <<>>]

\* a generator whose hunkLines is declared once for all invocations
StoreInvocationSharingHunkLines(invs, i, g) ==
    [k \in DOMAIN invs |->
        IF k = i THEN [invs[k] EXCEPT !.gen = g]
        ELSE [invs[k] EXCEPT !.gen.hunkLines = g.hunkLines]]
\* the variables of lines 292-305 are declared inside the generator function:
\* what invocation i assigns is seen by invocation i alone
StoreInvocation(invs, i, g) == [invs EXCEPT ![i].gen = g]

InitTwo ==
    /\ InitConfig(Config(16, 2, 1, 0, FALSE))
    /\ InitGen
    /\ InitNoCall
    /\ invocations = <<FreshInvocation, FreshInvocation>>

TwoPull(i, l) ==
    /\ invocations[i].gen.pc = "pull"
    /\ Len(invocations[i].input) < MaxInputEach
    /\ invocations' =
            [StoreInvocation(invocations, i,
                    Run([invocations[i].gen EXCEPT !.pc = "dispatch", !.line = l]))
                EXCEPT ![i].input = Append(@, l)]
    /\ UNCHANGED <<cfgVars, genVars, fmtVars, ctlVars>>

TwoEnd(i) ==
    /\ invocations[i].gen.pc = "pull"
    /\ invocations' =
            [StoreInvocation(invocations, i,
                    Run([invocations[i].gen EXCEPT !.pc = "eof", !.line = EndOfInput]))
                EXCEPT ![i].ended = TRUE]
    /\ UNCHANGED <<cfgVars, genVars, fmtVars, ctlVars>>

TwoDeliver(i) ==
    /\ invocations[i].gen.pending # <<>>
    /\ invocations' =
            [invocations EXCEPT ![i].out = Append(@, Head(invocations[i].gen.pending)),
                                ![i].gen.pending = Tail(@)]
    /\ UNCHANGED <<cfgVars, genVars, fmtVars, ctlVars>>

TwoResume(i) ==
    /\ invocations[i].gen.pending = <<>>
    /\ invocations[i].gen.pc # "pull"
    /\ ~Finished(invocations[i].gen)
    /\ invocations' = StoreInvocation(invocations, i, Run(Advance(invocations[i].gen)))
    /\ UNCHANGED <<cfgVars, genVars, fmtVars, ctlVars>>

NextTwo ==
    \/ \E i \in 1..2, l \in TwoInputLines : TwoPull(i, l)
    \/ \E i \in 1..2 : TwoEnd(i)
    \/ \E i \in 1..2 : TwoDeliver(i)
    \/ \E i \in 1..2 : TwoResume(i)

SpecTwo == InitTwo /\ [][NextTwo]_vars

-----------------------------------------------------------------------------
(* Reading the emitted rows back *)

\* the elements of a finite set of integers in increasing order
Sorted(S) == [k \in 1..Cardinality(S) |-> CHOOSE i \in S : Cardinality({j \in S : j <= i}) = k]

HalfOf(l, side) == IF side = "A" THEN l.left ELSE l.right
\* the role colour of a formatted half (its text column, or the filler)
HalfColor(h) == h[Len(h)].color
\* a formatted half that is a blank filler (line 202 / 206)
IsFiller(h) == Len(h) = 1
\* the number a formatted half shows, without its padding
ShownNumber(h) == StripLeft(h[1].text)
\* the text column of a formatted half, without the separating blank
ShownText(h) == Tail(h[Len(h)].text)
\* the first segment of a line that is present: the one that shows a number
IsFirstSegment(h) == ~IsFiller(h) /\ ShownNumber(h) # <<>>

\* positions in `lines` of the rows whose `side` half is the first segment of a
\* line with one of the role colours
FirstSegments(lines, side, colors) ==
    {i \in 1..Len(lines) :
        /\ lines[i].kind = "row"
        /\ IsFirstSegment(HalfOf(lines[i], side))
        /\ HalfColor(HalfOf(lines[i], side)) \in colors}

PresentColors == {"DELETED_LINE_COLOR", "INSERTED_LINE_COLOR", "UNMODIFIED_LINE_COLOR"}

\* the numbers shown on the non-missing halves of one side, in emission order
ShownNumbers(lines, side) ==
    LET at == Sorted(FirstSegments(lines, side, PresentColors))
    IN [k \in 1..Len(at) |-> ShownNumber(HalfOf(lines[at[k]], side))]

\* the text columns of one side's halves of a role, in emission order
ShownTexts(lines, side, color) ==
    LET at == Sorted(FirstSegments(lines, side, {color}))
    IN [k \in 1..Len(at) |-> ShownText(HalfOf(lines[at[k]], side))]

IsDeletion(l) == StartsWith(l, <<"-">>)
IsInsertion(l) == StartsWith(l, <<"+">>)
IsContext(l) == ~IsDeletion(l) /\ ~IsInsertion(l)

\* positions of the raw lines of a kind
Deletions(lines) == {i \in 1..Len(lines) : IsDeletion(lines[i])}
Insertions(lines) == {i \in 1..Len(lines) : IsInsertion(lines[i])}
Contexts(lines) == {i \in 1..Len(lines) : IsContext(lines[i])}

\* the text column a raw line is expected to show in its first segment
ExpectedText(l) ==
    PadEnd(FitTextToWidth(SliceFrom(l, 1), LINE_TEXT_WIDTH)[1], LINE_TEXT_WIDTH)

ExpectedTexts(lines, at) == [k \in 1..Cardinality(at) |-> ExpectedText(lines[Sorted(at)[k]])]

-----------------------------------------------------------------------------
(* C1 *)

\* C1: across a hunk, the numbers shown on the non-missing left halves are
\* startA, startA+1, ... in emission order and those on the right halves are
\* startB, startB+1, ...; a missing half shows no number and leaves its side's
\* counter alone, so each counter stands at its start plus the numbers shown.
C1_LineNumbers ==
    hpc \in {"loop", "returned"} =>
        /\ \A k \in 1..Len(ShownNumbers(formattedLines, "A")) :
              ShownNumbers(formattedLines, "A")[k] = NumberToString(Num(startA.v + k - 1))
        /\ \A k \in 1..Len(ShownNumbers(formattedLines, "B")) :
              ShownNumbers(formattedLines, "B")[k] = NumberToString(Num(startB.v + k - 1))
        /\ lineNoA = Num(startA.v + Len(ShownNumbers(formattedLines, "A")))
        /\ lineNoB = Num(startB.v + Len(ShownNumbers(formattedLines, "B")))
        /\ \A i \in 1..Len(formattedLines) : \A side \in {"A", "B"} :
              (formattedLines[i].kind = "row"
                  /\ HalfColor(HalfOf(formattedLines[i], side)) = "MISSING_LINE_COLOR")
              => ~IsFirstSegment(HalfOf(formattedLines[i], side))
        /\ hpc = "returned" =>
              /\ Len(ShownNumbers(formattedLines, "A")) =
                    Cardinality(Deletions(hunkLines))
                        + (IF Truthy(fileNameA) THEN Cardinality(Contexts(hunkLines)) ELSE 0)
              /\ Len(ShownNumbers(formattedLines, "B")) =
                    Cardinality(Insertions(hunkLines))
                        + (IF Truthy(fileNameB) THEN Cardinality(Contexts(hunkLines)) ELSE 0)

\* a hunk with a gap on the left: numbers on both sides, a missing left half,
\* and a left number shown after the gap's side ran ahead
C1_Witness ==
    /\ hpc = "returned"
    /\ Len(ShownNumbers(formattedLines, "A")) >= 2
    /\ Len(ShownNumbers(formattedLines, "B")) >= 2
    /\ ShownNumbers(formattedLines, "B")[2] = <<"9", "9">>
    /\ \E i \in 1..Len(formattedLines) :
          /\ formattedLines[i].kind = "row"
          /\ HalfColor(formattedLines[i].left) = "MISSING_LINE_COLOR"
          /\ IsFirstSegment(formattedLines[i].right)

-----------------------------------------------------------------------------
(* C2 *)

\* what a half shows of a raw line: its role colour and text column
Shown(color, l) == [color |-> color, text |-> ExpectedText(l)]
MissingHalf == [color |-> "MISSING_LINE_COLOR", text |-> PadEnd(<<>>, LINE_TEXT_WIDTH)]
ShownHalf(h) == [color |-> HalfColor(h), text |-> ShownText(h)]

\* the pairing of a change block with deletions a and insertions b
ZipBlock(a, b) ==
    [i \in 1..Max(Len(a), Len(b)) |->
        << IF i <= Len(a) THEN Shown("DELETED_LINE_COLOR", a[i]) ELSE MissingHalf,
           IF i <= Len(b) THEN Shown("INSERTED_LINE_COLOR", b[i]) ELSE MissingHalf >>]

\* the paired rows of the change blocks of `lines`, block after block
RECURSIVE BlockRows(_, _, _)
BlockRows(lines, a, b) ==
    IF lines = <<>> THEN ZipBlock(a, b)
    ELSE IF IsDeletion(Head(lines)) THEN BlockRows(Tail(lines), Append(a, Head(lines)), b)
    ELSE IF IsInsertion(Head(lines)) THEN BlockRows(Tail(lines), a, Append(b, Head(lines)))
    ELSE ZipBlock(a, b) \o BlockRows(Tail(lines), <<>>, <<>>)

\* the emitted rows that hold a deletion or an insertion, as pairs of halves
ChangeRows(lines) ==
    LET at == Sorted(FirstSegments(lines, "A", {"DELETED_LINE_COLOR"})
                        \cup FirstSegments(lines, "B", {"INSERTED_LINE_COLOR"}))
    IN [k \in 1..Len(at) |-> <<ShownHalf(lines[at[k]].left), ShownHalf(lines[at[k]].right)>>]

\* C2: each change block with deletions A and insertions B is emitted as
\* max(|A|,|B|) rows, row i pairing A[i] with B[i] (a missing half beyond the
\* shorter side), whatever the interleaving of the block's lines.
C2_ChangeBlockPairs ==
    hpc = "returned" => ChangeRows(formattedLines) = BlockRows(hunkLines, <<>>, <<>>)

\* the same, for the hunks in which no context line is shown on one side only
C2_PairsWhenNamesAgree ==
    (hpc = "returned" /\ Truthy(fileNameA) = Truthy(fileNameB))
        => ChangeRows(formattedLines) = BlockRows(hunkLines, <<>>, <<>>)

-----------------------------------------------------------------------------
(* C3 *)

\* the rows in which a context line shows on `side`
ContextRows(lines, side) == FirstSegments(lines, side, {"UNMODIFIED_LINE_COLOR"})

\* how many of the raw lines before position i are counted on `side`
CountedBefore(lines, i, side) ==
    Cardinality({j \in 1..(i - 1) :
        \/ (side = "A" /\ IsDeletion(lines[j]))
        \/ (side = "B" /\ IsInsertion(lines[j]))
        \/ IsContext(lines[j])})

\* the k-th context row of `side` shows the k-th context line, numbered with
\* the side's counter at that point
ContextShownOn(side, name, start) ==
    LET rows == Sorted(ContextRows(formattedLines, side))
        raw == Sorted(Contexts(hunkLines))
    IN IF ~Truthy(name) THEN rows = <<>>
       ELSE /\ Len(rows) = Len(raw)
            /\ \A k \in 1..Len(rows) :
                  LET h == HalfOf(formattedLines[rows[k]], side)
                  IN /\ ShownText(h) = ExpectedText(hunkLines[raw[k]])
                     /\ ShownNumber(h) =
                            NumberToString(Num(start.v + CountedBefore(hunkLines, raw[k], side)))

\* a context row of its own: the same context text on both halves
OwnRow(l) ==
    /\ IsFirstSegment(l.left) /\ HalfColor(l.left) = "UNMODIFIED_LINE_COLOR"
    /\ IsFirstSegment(l.right) /\ HalfColor(l.right) = "UNMODIFIED_LINE_COLOR"
    /\ ShownText(l.left) = ShownText(l.right)

-----------------------------------------------------------------------------
(* C4 *)

\* the position in formattedLines of the row that shows raw line i on `side`
RowOf(i, side) ==
    LET color == IF IsDeletion(hunkLines[i]) THEN "DELETED_LINE_COLOR"
                 ELSE IF IsInsertion(hunkLines[i]) THEN "INSERTED_LINE_COLOR"
                 ELSE "UNMODIFIED_LINE_COLOR"
        same == IF IsDeletion(hunkLines[i]) THEN Deletions(hunkLines)
                ELSE IF IsInsertion(hunkLines[i]) THEN Insertions(hunkLines)
                ELSE Contexts(hunkLines)
    IN Sorted(FirstSegments(formattedLines, side, {color}))[Cardinality({j \in same : j <= i})]

\* the colours of all halves (segments and fillers) emitted on `side`
ColorsOn(side) ==
    {HalfColor(HalfOf(formattedLines[i], side)) :
        i \in {j \in 1..Len(formattedLines) : formattedLines[j].kind = "row"}}

\* C4: every '-' line appears exactly once, as a left half, every '+' line
\* exactly once, as a right half, each side in the order of its raw lines;
\* none is dropped, duplicated, or emitted before the row of a context line
\* that preceded it in the input.
C4_ChangedLinesKept ==
    hpc = "returned" =>
        /\ ShownTexts(formattedLines, "A", "DELETED_LINE_COLOR")
              = ExpectedTexts(hunkLines, Deletions(hunkLines))
        /\ ShownTexts(formattedLines, "B", "INSERTED_LINE_COLOR")
              = ExpectedTexts(hunkLines, Insertions(hunkLines))
        /\ "DELETED_LINE_COLOR" \notin ColorsOn("B")
        /\ "INSERTED_LINE_COLOR" \notin ColorsOn("A")
        /\ \A j \in Deletions(hunkLines) \cup Insertions(hunkLines) :
              \A i \in {c \in Contexts(hunkLines) : c < j} :
                 LET changed == RowOf(j, IF IsDeletion(hunkLines[j]) THEN "A" ELSE "B")
                 IN /\ Truthy(fileNameA) => RowOf(i, "A") <= changed
                    /\ Truthy(fileNameB) => RowOf(i, "B") <= changed

\* a hunk whose changed lines surround a context line, insertion first
C4_Witness ==
    /\ hpc = "returned"
    /\ Len(hunkLines) = 3
    /\ IsInsertion(hunkLines[1]) /\ IsContext(hunkLines[2]) /\ IsDeletion(hunkLines[3])
    /\ Len(ShownTexts(formattedLines, "A", "DELETED_LINE_COLOR")) = 1
    /\ Len(ShownTexts(formattedLines, "B", "INSERTED_LINE_COLOR")) = 1

-----------------------------------------------------------------------------
(* C10 *)

\* the line halves flushHunkChange builds from the raw lines of the hunk
HalvesOfHunk ==
    {HunkLineHalf(NumberToString(startA), Slice(hunkLines[i], 0, 1), SliceFrom(hunkLines[i], 1)) :
        i \in 1..Len(hunkLines)} \cup {NullHalf}

\* the first n characters of a text
FirstCharacters(text, n) == SubSeq(text, 1, Min(n, Len(text)))

\* the law of one paired row with halves a and b
RowLaw(a, b) ==
    LET m == Len(FitTextToWidth(a.text, LINE_TEXT_WIDTH))
        n == Len(FitTextToWidth(b.text, LINE_TEXT_WIDTH))
        rows == FormatHunkLine(a, b)
        half(x, k, h) ==
            IF k <= Len(FitTextToWidth(x.text, LINE_TEXT_WIDTH))
            THEN /\ ~IsFiller(h)
                 /\ HalfColor(h) = LineColorForLineHalf(x)
                 /\ ShownText(h) = PadEnd(FitTextToWidth(x.text, LINE_TEXT_WIDTH)[k], LINE_TEXT_WIDTH)
                 /\ ShownNumber(h) = (IF k = 1 THEN x.number ELSE <<>>)
                 /\ StripLeft(h[2].text) = (IF k = 1 THEN StripLeft(x.prefix) ELSE <<>>)
            ELSE h = Colored(LineColorForLineHalf(x), Repeat(" ", LINE_WIDTH))
    IN /\ Len(rows) = Max(m, n)
       /\ \A k \in 1..Len(rows) : half(a, k, rows[k].left) /\ half(b, k, rows[k].right)
       /\ ~WRAP_LINES =>
             /\ Len(rows) = 1
             /\ ShownText(rows[1].left)
                   = PadEnd(FirstCharacters(a.text, LINE_TEXT_WIDTH), LINE_TEXT_WIDTH)
             /\ ShownText(rows[1].right)
                   = PadEnd(FirstCharacters(b.text, LINE_TEXT_WIDTH), LINE_TEXT_WIDTH)

\* C10: a paired row whose halves fit into m and n segments is emitted as
\* max(m,n) lines, line k joining segment k of each half, a blank filler of the
\* half's role colour standing in once its segments are exhausted, and only
\* the first segment carrying number and prefix; without wrapping each half is
\* one segment, the first LINE_TEXT_WIDTH characters of its text, and the row
\* is one line.
C10_RowLines ==
    hpc = "returned" =>
        /\ \A a \in HalvesOfHunk : \A b \in HalvesOfHunk : RowLaw(a, b)
        /\ \A i \in 1..Len(formattedLines) :
              formattedLines[i].kind = "row" =>
                 /\ ~IsFiller(formattedLines[i].left) \/ ~IsFiller(formattedLines[i].right)
                 /\ ~WRAP_LINES =>
                       (~IsFiller(formattedLines[i].left) /\ ~IsFiller(formattedLines[i].right))

\* the same where the text column has a width
C10_RowLinesWithTextColumn == LINE_TEXT_WIDTH >= 0 => C10_RowLines

-----------------------------------------------------------------------------
(* C5 *)

\* the lines handed over or about to be
Emitted == out \o pending

\* the lines emitted since the last hunk header line
SinceHunkHeader(lines) ==
    LET headers == {i \in 1..Len(lines) : lines[i].kind = "hunkHeader"}
    IN IF headers = {} THEN <<>>
       ELSE SubSeq(lines, (CHOOSE i \in headers : \A j \in headers : j <= i) + 1, Len(lines))

\* raw line l shows in a first segment of the rows `lines`
Reflected(l, lines) ==
    IF IsDeletion(l)
    THEN \E i \in FirstSegments(lines, "A", {"DELETED_LINE_COLOR"}) :
            ShownText(lines[i].left) = ExpectedText(l)
    ELSE IF IsInsertion(l)
    THEN \E i \in FirstSegments(lines, "B", {"INSERTED_LINE_COLOR"}) :
            ShownText(lines[i].right) = ExpectedText(l)
    ELSE \E side \in {"A", "B"} : \E i \in ContextRows(lines, side) :
            ShownText(HalfOf(lines[i], side)) = ExpectedText(l)

\* C5: at the end of the input the pending hunk is flushed as on a transition
\* (its header and a row for every buffered body line) and a pending banner is
\* emitted, so that once the stream is done every consumed body line has been
\* shown in a row and nothing is left buffered.
C5_EndOfInputFlush ==
    /\ (pc = "afterHunk" /\ line = EndOfInput) =>
          /\ Emitted # <<>>
          /\ \A i \in 1..Len(hunkLines) : Reflected(hunkLines[i], SinceHunkHeader(Emitted))
    /\ pc = "done" => (pending = <<>> /\ hunkLines = <<>>)
    /\ (pc = "done" /\ state = "diff") =>
          /\ Len(out) >= 3
          /\ out[Len(out)].kind = "separator"
          /\ out[Len(out) - 1].kind = "fileName"
          /\ out[Len(out) - 2].kind = "separator"

\* the same for the deletions and insertions of the hunk only
C5_ChangedLinesFlushed ==
    (pc = "afterHunk" /\ line = EndOfInput) =>
        \A i \in Deletions(hunkLines) \cup Insertions(hunkLines) :
            Reflected(hunkLines[i], SinceHunkHeader(Emitted))

-----------------------------------------------------------------------------
(* C6 *)

IsNumber(s) == s # <<>> /\ \A i \in 1..Len(s) : IsDigit(s[i])

\* sign start[,count] with numeric start and count
IsRange(s, sign) ==
    /\ s # <<>>
    /\ Head(s) = sign
    /\ Len(Split(Tail(s), ",")) \in {1, 2}
    /\ \A i \in 1..Len(Split(Tail(s), ",")) : IsNumber(Split(Tail(s), ",")[i])

\* '-start[,count] +start[,count]' between the '@@ ' and ' @@' delimiters
WellFormedHunkHeader(l) ==
    LET open == IndexOf(l, <<"@", "@", " ">>, 0)
        close == IndexOf(l, <<" ", "@", "@">>, open + 1)
        ranges == Split(Slice(l, open + 3, close), " ")
    IN /\ open >= 0
       /\ close > open
       /\ Len(ranges) = 2
       /\ IsRange(ranges[1], "-")
       /\ IsRange(ranges[2], "+")

\* C6: a line starting with '@@' whose ranges are not of the shape
\* '-start[,count] +start[,count]' with numeric starts ends the stream in
\* error; the generator never is in state Hunk under such a header.
C6_MalformedHeaderFatal ==
    (state = "hunk" /\ pc # "error") => WellFormedHunkHeader(hunkHeaderLine)

\* the same for the headers that lack a delimiter, a range or a sign
C6_UnsignedHeaderFatal ==
    (state = "hunk" /\ pc # "error") =>
        \/ WellFormedHunkHeader(hunkHeaderLine)
        \/ hunkHeaderLine = <<"@", "@", " ", "-", "x", " ", "+", "y", " ", "@", "@">>

-----------------------------------------------------------------------------
(* C7 *)

\* C7: every emitted line is exactly SCREEN_WIDTH display columns wide, the
\* colour escape sequences not counted.
C7_LinesFillScreen == \A k \in 1..Len(out) : Width(out[k]) = SCREEN_WIDTH

-----------------------------------------------------------------------------
(* C8 *)

\* C8: LINE_WIDTH is max(floor(SCREEN_WIDTH/2), MIN_LINE_WIDTH), at least
\* MIN_LINE_WIDTH, and LINE_TEXT_WIDTH is clamped to be at least 0.
C8_DerivedWidths ==
    bound =>
        /\ LINE_WIDTH = Max(SCREEN_WIDTH \div 2, MIN_LINE_WIDTH)
        /\ LINE_WIDTH >= MIN_LINE_WIDTH
        /\ LINE_TEXT_WIDTH >= 0

\* the part about LINE_WIDTH alone
C8_LineWidth ==
    bound =>
        /\ LINE_WIDTH = Max(SCREEN_WIDTH \div 2, MIN_LINE_WIDTH)
        /\ LINE_WIDTH >= MIN_LINE_WIDTH

-----------------------------------------------------------------------------
(* C9 *)

RECURSIVE StripRight(_)
StripRight(s) ==
    IF s # <<>> /\ s[Len(s)] = " " THEN StripRight(SubSeq(s, 1, Len(s) - 1)) ELSE s

\* a name that is absent: empty, or never captured
IsEmptyName(name) == name = <<>> \/ name = Undefined

ExpectedIndicator(nameA, nameB) ==
    IF IsEmptyName(nameA) THEN Colored("INSERTED_LINE_COLOR", <<"#", "#">>)
    ELSE IF IsEmptyName(nameB) THEN Colored("DELETED_LINE_COLOR", <<"#", "#">>)
    ELSE Colored("DELETED_LINE_COLOR", <<"#">>) \o Colored("INSERTED_LINE_COLOR", <<"#">>)

ExpectedLabel(nameA, nameB) ==
    IF IsEmptyName(nameA) THEN (IF IsEmptyName(nameB) THEN <<>> ELSE nameB)
    ELSE IF IsEmptyName(nameB) \/ nameA = nameB THEN nameA
    ELSE nameA \o <<" ", "-", ">", " ">> \o nameB

\* the three lines of the banner of (nameA, nameB)
IsBanner(lines, nameA, nameB) ==
    /\ Len(lines) = 3
    /\ lines[1] = HORIZONTAL_SEPARATOR
    /\ lines[3] = lines[1]
    /\ lines[2].kind = "fileName"
    /\ LET body == lines[2].left
           indicator == ExpectedIndicator(nameA, nameB)
       IN /\ Len(body) > 1 + Len(indicator)
          /\ SubSeq(body, 2, 1 + Len(indicator)) = indicator
          /\ StripRight(PlainText(SubSeq(body, 2 + Len(indicator), Len(body))))
                = StripRight(<<" ">> \o ExpectedLabel(nameA, nameB))

\* the banner being handed over: its lines already out and those pending
BannerInFlight ==
    SubSeq(out, Len(out) - (3 - Len(pending)) + 1, Len(out)) \o pending

\* C9: for every FileNamePair the banner is a separator, one body line and
\* the same separator; the indicator is the inserted block when fileNameA is
\* empty, the deleted block when only fileNameB is empty, else one deleted and
\* one inserted character; the label is fileNameB, fileNameA, or
\* 'fileNameA -> fileNameB' accordingly.
C9_Banner ==
    pc = "afterFileName" =>
        /\ ~pendingThrows
        /\ Len(pending) <= 3
        /\ Len(out) + Len(pending) >= 3
        /\ IsBanner(BannerInFlight, fileNameA, fileNameB)

\* the same for the FileNamePairs whose label is a string
C9_BannerOfStrings ==
    (pc = "afterFileName" /\ ~LabelIsUndefined(fileNameA, fileNameB)) =>
        /\ ~pendingThrows
        /\ Len(pending) <= 3
        /\ Len(out) + Len(pending) >= 3
        /\ IsBanner(BannerInFlight, fileNameA, fileNameB)

-----------------------------------------------------------------------------
(* C11: concurrent invocations *)

\* a consumer that takes every line the generator g has to give, until g
\* waits for input or is finished; o is what the consumer has so far
RECURSIVE Drain(_, _)
Drain(g, o) ==
    LET taken == [g EXCEPT !.pending = <<>>]
    IN IF taken.pc = "pull" \/ Finished(taken)
       THEN [gen |-> taken, out |-> o \o g.pending]
       ELSE Drain(Run(Advance(taken)), o \o g.pending)

\* generator g fed the lines of input one after the other, alone
RECURSIVE Feed(_, _, _)
Feed(g, o, input) ==
    IF input = <<>> \/ g.pc # "pull" THEN [gen |-> g, out |-> o]
    ELSE LET fed == Drain(Run([g EXCEPT !.pc = "dispatch", !.line = Head(input)]), o)
         IN Feed(fed.gen, fed.out, Tail(input))

\* the whole output of one invocation run alone on an input
OutputAlone(input, ended) ==
    LET fed == Feed(FreshGen, <<>>, input)
    IN IF ended /\ fed.gen.pc = "pull"
       THEN Drain(Run([fed.gen EXCEPT !.pc = "eof", !.line = EndOfInput]), fed.out).out
       ELSE fed.out

IsPrefix(s, t) == Len(s) <= Len(t) /\ SubSeq(t, 1, Len(s)) = s

Quiescent(inv) == inv.gen.pending = <<>> /\ (inv.gen.pc = "pull" \/ Finished(inv.gen))

\* C11: of two invocations under one binding whose steps interleave in any
\* order, each has given, at every moment, a prefix of the output it gives
\* when it runs alone on the lines it was fed, and exactly that output
\* whenever it has nothing left to hand over: its output is a function of its
\* own input and the binding, and what the other invocation does changes none
\* of its state.
C11_Isolation ==
    \A i \in DOMAIN invocations :
        LET inv == invocations[i]
            alone == OutputAlone(inv.input, inv.ended)
        IN /\ IsPrefix(inv.out \o inv.gen.pending, alone)
           /\ Quiescent(inv) => inv.out = alone

\* one invocation still buffers the body of its hunk while the other, fed a
\* hunk too, has flushed its own, emptied its buffer and finished
C11_Witness ==
    /\ invocations # <<>>
    /\ invocations[1].gen.state = "hunk"
    /\ invocations[1].gen.hunkLines # <<>>
    /\ invocations[2].gen.hunkLines = <<>>
    /\ invocations[2].gen.pc = "done"
    /\ \E k \in 1..Len(invocations[2].out) : invocations[2].out[k].kind = "row"
-----------------------------------------------------------------------------
(* C12: demand-driven flow *)

\* C12: input is pulled one line at a time and only by a generator that waits
\* in its loop with nothing left to hand over, so line k+1 is never requested
\* before every output line produced for lines 1..k, a flush triggered by
\* line k included, has been taken; and the consumer is handed one line at
\* a time, in the order the lines were yielded.
C12_DemandDriven ==
    [][ /\ pulled' # pulled =>
              (pulled' = pulled + 1 /\ pc = "pull" /\ pending = <<>>)
        /\ out' # out =>
              (pending # <<>> /\ out' = Append(out, Head(pending))
                  /\ pending' = Tail(pending) /\ pulled' = pulled)
        /\ pc' = "pull" => pending' = <<>> ]_vars

\* the third line was pulled after the rows of the hunk it flushed were taken
C12_Witness ==
    /\ pulled = 3
    /\ pc = "pull"
    /\ IsHunkMarker(line)
    /\ \E k \in 1..Len(out) : out[k].kind = "row"
-----------------------------------------------------------------------------
(* C13: abandonment *)

\* C13: once the consumer has given up the iteration, at whatever yield the
\* generator was suspended, no further input line is pulled, no further
\* output line is handed over, and the generator holds nothing it would
\* still hand over.
C13_Abandonment ==
    [][ /\ abandoned => (pulled' = pulled /\ out' = out /\ pending' = <<>>)
        /\ abandoned' => (pending' = <<>> /\ pc' # "pull") ]_vars

\* the consumer gave up in the middle of a hunk flush: it took the header of
\* the hunk, and the rows of the buffered body were never handed over
C13_Witness ==
    /\ abandoned
    /\ hunkLines # <<>>
    /\ out # <<>>
    /\ out[Len(out)].kind = "hunkHeader"
    /\ pulled < MaxInput
-----------------------------------------------------------------------------
(* C14: what one hunk holds *)

\* the positions of the raw lines in the change block of line i: the maximal
\* run of deletions and insertions around it, or a context line by itself
BlockAt(lines, i) ==
    IF IsContext(lines[i]) THEN {i}
    ELSE {j \in 1..Len(lines) :
            \A k \in Min(i, j)..Max(i, j) : ~IsContext(lines[k])}

\* how many lines of a role the held rows show on one side
Held(rows, side, color) == Cardinality(FirstSegments(rows, side, {color}))

\* how many lines wait in a buffer of flushHunkChange, at the given positions
Buffered(at) == IF hpc = "loop" THEN Cardinality(at) ELSE 0

\* the held rows show no more than the raw lines at the positions `at`
HeldWithin(rows, lines, at) ==
    /\ Held(rows, "A", "DELETED_LINE_COLOR") <= Cardinality(at \cap Deletions(lines))
    /\ Held(rows, "B", "INSERTED_LINE_COLOR") <= Cardinality(at \cap Insertions(lines))
    /\ Held(rows, "A", "UNMODIFIED_LINE_COLOR") <= Cardinality(at \cap Contexts(lines))
    /\ Held(rows, "B", "UNMODIFIED_LINE_COLOR") <= Cardinality(at \cap Contexts(lines))

\* C14 as stated: the formatted rows held at any moment are those of a single
\* change block of the current hunk.
C14_OneBlockHeld ==
    \/ \A k \in 1..Len(formattedLines) : formattedLines[k].kind # "row"
    \/ \E i \in 1..Len(hunkLines) :
            HeldWithin(formattedLines, hunkLines, BlockAt(hunkLines, i))

\* C14, amended: the formatted rows held at any moment, together with the
\* lines waiting in the two buffers, show no more than the raw lines of the
\* current hunk read so far, each at most once per side; the rows of all the
\* change blocks of the hunk accumulate until the hunk is returned whole.
C14_OneHunkHeld ==
    LET read == 1..hunkIndex
    IN hpc \in {"loop", "returned"} =>
        /\ Held(formattedLines, "A", "DELETED_LINE_COLOR") + Buffered(Deletions(linesA))
                <= Cardinality(read \cap Deletions(hunkLines))
        /\ Held(formattedLines, "B", "INSERTED_LINE_COLOR") + Buffered(Insertions(linesB))
                <= Cardinality(read \cap Insertions(hunkLines))
        /\ Held(formattedLines, "A", "UNMODIFIED_LINE_COLOR") + Buffered(Contexts(linesA))
                <= Cardinality(read \cap Contexts(hunkLines))
        /\ Held(formattedLines, "B", "UNMODIFIED_LINE_COLOR") + Buffered(Contexts(linesB))
                <= Cardinality(read \cap Contexts(hunkLines))
        /\ Len(linesA) <= hunkIndex /\ Len(linesB) <= hunkIndex

\* a hunk of a deletion, a context line and an insertion is returned with the
\* rows of both its change blocks held at once
C14_Witness ==
    /\ hpc = "returned"
    /\ Len(hunkLines) = 3
    /\ IsDeletion(hunkLines[1]) /\ IsContext(hunkLines[2]) /\ IsInsertion(hunkLines[3])
    /\ Held(formattedLines, "A", "DELETED_LINE_COLOR") = 1
    /\ Held(formattedLines, "B", "INSERTED_LINE_COLOR") = 1
-----------------------------------------------------------------------------
(* C15: one banner per diff section *)

\* the number of banner bodies among the lines
Banners(lines) == Cardinality({k \in 1..Len(lines) : lines[k].kind = "fileName"})

IsMarker(l) == IsCommitMarker(l) \/ IsDiffMarker(l) \/ IsHunkMarker(l)

\* a step in which the line that arrives, or the end of the input, takes the
\* generator out of the DiffHeader state
LeavesDiffHeader ==
    /\ pc = "pull"
    /\ state = "diff"
    /\ pc' # "pull"
    /\ IsMarker(line') \/ line' = EndOfInput

\* a step that adds the header or a row of a hunk to what was produced
AddsHunkLines ==
    /\ Len(Emitted') > Len(Emitted)
    /\ Emitted'[Len(Emitted')].kind \in {"hunkHeader", "row"}

\* what a step may do to the banners while the consumer stays
BannerStep(withBanner) ==
    /\ (LeavesDiffHeader /\ withBanner) =>
          /\ Emitted' = Emitted \o pending'
          /\ Len(pending') = 3
          /\ Banners(pending') = 1
    /\ ~LeavesDiffHeader => Banners(Emitted') = Banners(Emitted)
    /\ AddsHunkLines => (state = "hunk" /\ Banners(Emitted') = Banners(Emitted))

\* C15: the section opened by a 'diff --git' marker gets its banner exactly
\* when the DiffHeader state is left, by a hunk header, another diff marker,
\* a commit marker or the end of the input: that step produces the three
\* banner lines, no other step produces a banner, and the rows of a hunk are
\* produced only later, in state Hunk, without another banner.
C15_OneBannerPerSection == [][~abandoned' => BannerStep(TRUE)]_vars

\* the same for the sections whose label is a string
C15_BannerPerSectionOfStrings ==
    [][~abandoned' => BannerStep(~LabelIsUndefined(fileNameA, fileNameB))]_vars
-----------------------------------------------------------------------------
(* C16: failure on a malformed hunk header *)

\* a hunk header that fails one of the assertions of lines 348-363
MalformedHeader(l) ==
    IsHunkMarker(l) /\ ParseHunkHeader(l, <<>>, Num(-1), Num(-1)).throws

\* the last n of the lines handed over
LastOut(n) == SubSeq(out, Len(out) - n + 1, Len(out))

\* the stream fails in this step, with a malformed hunk header as its line
FailsOnHeader == pc # "error" /\ pc' = "error" /\ MalformedHeader(line')

\* what the consumer holds when the failure is raised, and afterwards
NoRollbackStep(withBanner) ==
    /\ FailsOnHeader =>
          /\ pending = <<>> /\ pending' = <<>>
          /\ out' = out
          /\ (state = "diff" /\ withBanner) =>
                /\ Len(out) >= 3
                /\ IsBanner(LastOut(3), fileNameA, fileNameB)
          /\ pc = "afterHunk" =>
                LET flushed == FormatHunkSideBySide(hunkHeaderLine, hunkLines,
                                    startA, startB, fileNameA, fileNameB)
                IN /\ Len(out) >= Len(flushed)
                   /\ LastOut(Len(flushed)) = flushed
    /\ pc = "error" => (pc' = "error" /\ out' = out /\ pulled' = pulled /\ pending' = <<>>)

\* C16: when a malformed hunk header ends the stream, the banner of the
\* section or the hunk that was pending before the header has been handed
\* over whole and in order before the failure is raised, what was handed
\* over stays as it is, and after the failure no line is produced and no
\* input line is pulled.
C16_NoRollback == [][NoRollbackStep(TRUE)]_vars

\* the same for the sections whose label is a string
C16_NoRollbackOfStrings ==
    [][NoRollbackStep(~LabelIsUndefined(fileNameA, fileNameB))]_vars
-----------------------------------------------------------------------------
(* C17: lines of the DiffHeader state *)

\* a line that is not a marker arrives in the DiffHeader state
DiffHeaderStep ==
    /\ pc = "pull"
    /\ state = "diff"
    /\ pulled' = pulled + 1
    /\ ~IsMarker(line')

\* the line starts like one of the four file-name lines
NamesFile(l) ==
    \/ StartsWith(l, Str_oldFile) \/ StartsWith(l, Str_newFile)
    \/ StartsWith(l, Str_renameFrom) \/ StartsWith(l, Str_renameTo)

\* a 'Binary files' line that BINARY_FILES_DIFF_REGEX does not match
FailsBinaryPattern(l) == StartsWith(l, Str_binaryFiles) /\ ~MatchBinaryFiles(l).matched

-----------------------------------------------------------------------------
(* C18: pass-through in the Commit state, buffering in the Hunk state *)

\* a line that is neither a diff marker nor a hunk header arrives in the
\* Commit state
CommitStep ==
    /\ pc = "pull"
    /\ state = "commit"
    /\ pulled' = pulled + 1
    /\ ~IsDiffMarker(line') /\ ~IsHunkMarker(line')

\* a line that is not a marker arrives in the Hunk state
HunkStep ==
    /\ pc = "pull"
    /\ state = "hunk"
    /\ pulled' = pulled + 1
    /\ ~IsMarker(line')

\* C18: a line that arrives in the Commit state and is neither a diff marker
\* nor a hunk header, the commit marker included, makes the generator hand
\* over exactly one line, the rendering of that very line, on which it stays
\* suspended before it asks for more input; the Commit state buffers
\* nothing.  A line that arrives in the Hunk state and is not a marker goes
\* to the end of the hunk buffer and produces nothing.
C18_PassThrough ==
    [][ /\ CommitStep =>
              /\ out' = out
              /\ Len(pending') = 1
              /\ pending'[1].kind = "commit"
              /\ pending'[1].right = <<>>
              /\ StripRight(PlainText(pending'[1].left)) = StripRight(line')
              /\ pc' = "afterCommitLine"
              /\ state' = "commit"
        /\ state' = "commit" => hunkLines' = <<>>
        /\ pc = "afterCommitLine" =>
              (pulled' = pulled /\ ((pending = <<>> /\ ~abandoned') => (pc' = "pull" /\ out' = out)))
        /\ HunkStep =>
              /\ out' = out
              /\ pending' = <<>>
              /\ hunkLines' = Append(hunkLines, line')
              /\ pc' = "pull" ]_vars

\* a commit marker arrived in the Commit state after another line and its
\* rendering is the one line the generator is suspended on
C18_Witness ==
    /\ pulled = 2
    /\ state = "commit"
    /\ pc = "afterCommitLine"
    /\ IsCommitMarker(line)
    /\ Len(out) = 1
    /\ Len(pending) = 1
-----------------------------------------------------------------------------
(* C19: assignments of the FileNamePair *)

MatchesBinaryPattern(l) == StartsWith(l, Str_binaryFiles) /\ MatchBinaryFiles(l).matched

\* the header lines that assign fileNameA, and those that assign fileNameB
AssignsA(l) ==
    StartsWith(l, Str_oldFile) \/ StartsWith(l, Str_renameFrom) \/ MatchesBinaryPattern(l)
AssignsB(l) ==
    StartsWith(l, Str_newFile) \/ StartsWith(l, Str_renameTo) \/ MatchesBinaryPattern(l)

\* the line is `prefix` followed by `name`
Names(l, prefix, name) == name # Undefined /\ l = prefix \o name

\* the line assigns `name` to the old, or to the new, side
NamesA(l, name) ==
    \/ Names(l, Str_oldFile, name) \/ Names(l, Str_renameFrom, name)
    \/ (MatchesBinaryPattern(l) /\ name = MatchBinaryFiles(l).groupA)
NamesB(l, name) ==
    \/ Names(l, Str_newFile, name) \/ Names(l, Str_renameTo, name)
    \/ (MatchesBinaryPattern(l) /\ name = MatchBinaryFiles(l).groupB)

\* C19 as stated: within a diff section fileNameA and fileNameB are each
\* assigned at most once after the reset: a header line that assigns a name
\* finds it as the reset left it.
C19_AssignedOnce ==
    [][ DiffHeaderStep =>
          /\ AssignsA(line') => fileNameA = <<>>
          /\ AssignsB(line') => fileNameB = <<>> ]_vars

\* C19, amended: each diff marker resets both names to empty; within the
\* section every old-file, rename-from or matching binary-files line assigns
\* fileNameA and every new-file, rename-to or matching binary-files line
\* assigns fileNameB, whatever the name holds already, so the last such line
\* decides; no other line changes a name.
C19_LastAssignmentWins ==
    [][ /\ DiffHeaderStep =>
              /\ IF AssignsA(line') THEN NamesA(line', fileNameA')
                                    ELSE fileNameA' = fileNameA
              /\ IF AssignsB(line') THEN NamesB(line', fileNameB')
                                    ELSE fileNameB' = fileNameB
        /\ (IsDiffMarker(line') /\ pc' = "pull" /\ pc # "pull") =>
              (state' = "diff" /\ fileNameA' = <<>> /\ fileNameB' = <<>>)
        /\ (state = "diff" /\ state' = "diff" /\ ~DiffHeaderStep /\ ~IsDiffMarker(line')) =>
              <<fileNameA', fileNameB'>> = <<fileNameA, fileNameB>> ]_vars

\* fileNameA was assigned twice in one section: by the 'Binary files' line
\* that left both names undefined, then by an old-file line
C19_Witness ==
    /\ state = "diff"
    /\ pc = "pull"
    /\ fileNameA = <<"f">>
    /\ fileNameB = Undefined
-----------------------------------------------------------------------------
(* C20: the hunk buffer and the state *)

\* C20: the hunk buffer is non-empty only in state Hunk; the state changes
\* away from Hunk only once the flushed hunk has been handed over whole, and
\* the buffer is empty when it does; the header and the start numbers change
\* only on a hunk header and leave an empty buffer, so every hunk starts with
\* an empty buffer; and the flush of a hunk opens with the header that the
\* generator holds for the buffered lines.
C20_BufferOnlyInHunk ==
    [][ /\ hunkLines' # <<>> => state' = "hunk"
        /\ (state = "hunk" /\ state' # "hunk") =>
              /\ pc \in {"afterHunk", "afterSeparator"}
              /\ pending = <<>>
              /\ hunkLines' = <<>>
        /\ <<hunkHeaderLine', startA', startB'>> # <<hunkHeaderLine, startA, startB>> =>
              (IsHunkMarker(line') /\ hunkLines' = <<>>)
        /\ (IsHunkMarker(line') /\ pc' = "pull" /\ pc # "pull") =>
              (state' = "hunk" /\ hunkLines' = <<>> /\ hunkHeaderLine' = line')
        /\ (pc' = "afterHunk" /\ pc = "pull") =>
              /\ state = "hunk"
              /\ <<hunkHeaderLine', hunkLines'>> = <<hunkHeaderLine, hunkLines>>
              /\ pending' # <<>>
              /\ pending'[1].kind = "hunkHeader"
              /\ IsPrefix(StripRight(PlainText(pending'[1].left)), hunkHeaderLine) ]_vars

\* a diff section began after a hunk: the rows of the hunk are out and the
\* buffer is empty
C20_Witness ==
    /\ state = "diff"
    /\ pc = "pull"
    /\ hunkLines = <<>>
    /\ \E k \in 1..Len(out) : out[k].kind = "row"
====
